---- MODULE Spec2Model ----
(***************************************************************************)
(* TypeRacerBattle: the race room lifecycle of server/routes.ts over the   *)
(* in-memory store of server/storage.ts.                                   *)
(*                                                                         *)
(* Every socket handler and the start-timer callback is an async function: *)
(* it runs synchronously up to an `await` of a Store call, and resumes     *)
(* later.  MemStorage's methods do their work synchronously when called,   *)
(* so one step of a task is: resume after the previous await, run the code *)
(* up to the next Store call, perform that call, suspend.  Suspended tasks *)
(* live in the bag `tasks`.                                                *)
(*                                                                         *)
(* With MemStorage every awaited promise is already resolved, so the       *)
(* continuations of one event all run before the next socket event or      *)
(* timer callback is taken from the event loop: Spec processes one event   *)
(* to completion before the next.  SpecAsync is the waiting room under the *)
(* IStorage contract (every call returns a Promise that may resolve late): *)
(* up to MaxInFlight handlers are suspended at once and resume in any      *)
(* order; SpecTyping is the same for typing_update in a started race, and  *)
(* SpecFaulty lets a Store call of a message handler reject.               *)
(*                                                                         *)
(* Time is counted in ticks of the clock `now` (Date.now()).               *)
(***************************************************************************)
EXTENDS Integers, Sequences, FiniteSets, Bags, TLC

\* ---------------------------------------------------------------- bounds
MaxSockets == 2
MaxRaces == 1
MaxRooms == 2
MaxTime == 2
MaxInFlight == 2
MaxTimers == 2
PassageLen == 2

\* ------------------------------------------------------ program constants
\* setTimeout(..., 5000): the start countdown, in ticks of `now`
StartDelay == 1
\* insertRace.maxPlayers || 4
DefaultMaxPlayers == 4
\* insertRace.timeLimit || 180
DefaultTimeLimit == 180
\* participants.length >= 2
MinPlayers == 2

Sockets == 1..MaxSockets
\* race ids a client may name: those that can exist and one that never does
RaceIds == 1..(MaxRaces + 1)
\* null (startedAt, finishedAt, rank)
Null == 0 - 1

MaxPlayersIn == {1, 2}
TimeLimitIn == {1, 2}

\* typing_update payloads: { progress, wpm, accuracy, errors }
Updates ==
  { [progress |-> 1, wpm |-> 30, accuracy |-> 90, errors |-> 1],
    [progress |-> PassageLen, wpm |-> 60, accuracy |-> 100, errors |-> 0] }
NoUpd == [progress |-> 0, wpm |-> 0, accuracy |-> 0, errors |-> 0]

VARIABLES
  now,            \* Date.now()
  races,          \* MemStorage.races: race id -> Race (ids are 1..Len)
  pobj,           \* every RaceParticipant object ever created, by id
  pmap,           \* MemStorage.participants: the objects in the Map, in insertion order
  sockState,      \* socket -> "new" | "open" (in io.sockets.sockets) | "closed"
  playerRaces,    \* socketId -> raceId
  playerIds,      \* socketId -> playerId
  playerNames,    \* socketId -> playerName
  socketsByRace,  \* raceId -> Set of socketIds
  timers,         \* pending setTimeout callbacks: bag of [race, due]
  tasks,          \* suspended async handlers: bag of task records
  sent,           \* the messages emitted by the last step, in order
  filledAt        \* history: per race, when a join last brought it to MinPlayers

vars == <<now, races, pobj, pmap, sockState, playerRaces, playerIds, playerNames,
          socketsByRace, timers, tasks, sent, filledAt>>

regVars == <<playerRaces, playerIds, playerNames, socketsByRace>>

\* ------------------------------------------------------------- the Store

\* x?.getTime() || 0
TimeOf(x) == IF x = Null THEN 0 ELSE x

\* x || d
OrDefault(x, d) == IF x = 0 THEN d ELSE x

HasRace(r) == r \in 1..Len(races)

NewRace(mp, tl) ==
  [maxPlayers |-> OrDefault(mp, DefaultMaxPlayers),
   timeLimit  |-> OrDefault(tl, DefaultTimeLimit),
   status     |-> "waiting",
   startedAt  |-> Null,
   finishedAt |-> Null]

\* mutant: the status is set, the start time is not
SetRaceStartTimeNoStamp(rs, r, t) ==
  IF r \in 1..Len(rs) THEN [rs EXCEPT ![r].status = "active"] ELSE rs

\* mutant: the start callback finishes the race
SetRaceStartTimeEnds(rs, r, t) ==
  IF r \in 1..Len(rs)
  THEN [rs EXCEPT ![r].startedAt = t, ![r].finishedAt = t, ![r].status = "finished"]
  ELSE rs

\* setRaceStartTime
SetRaceStartTime(rs, r, t) ==
  IF r \in 1..Len(rs)
  THEN [rs EXCEPT ![r].startedAt = t, ![r].status = "active"]
  ELSE rs

\* setRaceFinishTime
SetRaceFinishTime(rs, r, t) ==
  IF r \in 1..Len(rs)
  THEN [rs EXCEPT ![r].finishedAt = t, ![r].status = "finished"]
  ELSE rs

\* the Map key `${raceId}-${playerId}` of an object
KeyOf(objs, i) == <<objs[i].raceId, objs[i].playerId>>

\* position in the Map of key <<r, p>>, 0 when absent
KeyIdx(objs, m, r, p) ==
  IF \E k \in 1..Len(m) : KeyOf(objs, m[k]) = <<r, p>>
  THEN CHOOSE k \in 1..Len(m) : KeyOf(objs, m[k]) = <<r, p>>
  ELSE 0

\* Map.set(key, object i): in place when the key is present, else at the end
MapSet(objs, m, i) ==
  LET k == KeyIdx(objs, m, objs[i].raceId, objs[i].playerId)
  IN IF k = 0 THEN Append(m, i) ELSE [m EXCEPT ![k] = i]

\* mutant: nothing is deleted
MapDeleteNone(objs, m, r, p) == m

\* Map.delete(key)
MapDelete(objs, m, r, p) ==
  LET k == KeyIdx(objs, m, r, p)
  IN IF k = 0 THEN m
     ELSE SubSeq(m, 1, k - 1) \o SubSeq(m, k + 1, Len(m))

\* mutant: the array holds the first object of the race only
RaceParticipantsFirst(objs, m, r) ==
  LET all == SelectSeq(m, LAMBDA i : objs[i].raceId = r)
  IN IF all = <<>> THEN <<>> ELSE <<all[1]>>

\* getRaceParticipants: a new array of the Map's objects of race r
RaceParticipantsOf(objs, m, r) ==
  LET RECURSIVE Sel(_)
      Sel(k) == IF k > Len(m) THEN <<>>
                ELSE IF objs[m[k]].raceId = r THEN <<m[k]>> \o Sel(k + 1)
                ELSE Sel(k + 1)
  IN Sel(1)

GetRaceParticipants(r) == RaceParticipantsOf(pobj, pmap, r)

\* mutant: a new participant starts with accuracy 0
NewParticipantZero(r, p) ==
  [raceId |-> r, playerId |-> p, progress |-> 0, wpm |-> 0, accuracy |-> 0,
   errors |-> 0, finished |-> FALSE, finishedAt |-> Null, rank |-> Null]

NewParticipant(r, p) ==
  [raceId |-> r, playerId |-> p, progress |-> 0, wpm |-> 0, accuracy |-> 100,
   errors |-> 0, finished |-> FALSE, finishedAt |-> Null, rank |-> Null]

\* mutant: progress never decreases
UpdateParticipantProgressMax(objs, m, r, p, u) ==
  LET k == KeyIdx(objs, m, r, p)
  IN IF k = 0 THEN objs
     ELSE [objs EXCEPT ![m[k]].progress = IF u.progress > @ THEN u.progress ELSE @,
                       ![m[k]].wpm = u.wpm,
                       ![m[k]].accuracy = u.accuracy, ![m[k]].errors = u.errors]

\* updateParticipantProgress
UpdateParticipantProgress(objs, m, r, p, u) ==
  LET k == KeyIdx(objs, m, r, p)
  IN IF k = 0 THEN objs
     ELSE [objs EXCEPT ![m[k]].progress = u.progress, ![m[k]].wpm = u.wpm,
                       ![m[k]].accuracy = u.accuracy, ![m[k]].errors = u.errors]

\* finishParticipant
FinishParticipant(objs, m, r, p, t) ==
  LET k == KeyIdx(objs, m, r, p)
  IN IF k = 0 THEN objs
     ELSE [objs EXCEPT ![m[k]].finished = TRUE, ![m[k]].finishedAt = t]

\* .filter(p => p.finished) on an array of objects
FilterFinished(objs, s) ==
  LET RECURSIVE Sel(_)
      Sel(k) == IF k > Len(s) THEN <<>>
                ELSE IF objs[s[k]].finished THEN <<s[k]>> \o Sel(k + 1)
                ELSE Sel(k + 1)
  IN Sel(1)

\* mutant: the array is left in insertion order
SortByFinishNone(objs, s) == s

\* .sort((a, b) => time(a) - time(b)): stable, ascending finish time
SortByFinish(objs, s) ==
  LET RECURSIVE Ins(_, _)
      Ins(sorted, i) ==
        IF sorted = <<>> THEN <<i>>
        ELSE IF TimeOf(objs[sorted[Len(sorted)]].finishedAt) <= TimeOf(objs[i].finishedAt)
             THEN Append(sorted, i)
             ELSE Append(Ins(SubSeq(sorted, 1, Len(sorted) - 1), i), sorted[Len(sorted)])
      RECURSIVE Go(_, _)
      Go(sorted, k) == IF k > Len(s) THEN sorted ELSE Go(Ins(sorted, s[k]), k + 1)
  IN Go(<<>>, 1)

\* mutant: every object of the array is ranked, in array order
RankObjsAll(objs, snap) ==
  [i \in 1..Len(objs) |->
     IF \E k \in 1..Len(snap) : snap[k] = i
     THEN [objs[i] EXCEPT !.rank = CHOOSE k \in 1..Len(snap) : snap[k] = i]
     ELSE objs[i]]

\* updateParticipantRanks after its inner await: rank = index + 1 over the
\* finished objects of the array `snap`, each then set back into the Map
RankObjs(objs, snap) ==
  LET fin == SortByFinish(objs, FilterFinished(objs, snap))
  IN [i \in 1..Len(objs) |->
        IF \E k \in 1..Len(fin) : fin[k] = i
        THEN [objs[i] EXCEPT !.rank = CHOOSE k \in 1..Len(fin) : fin[k] = i]
        ELSE objs[i]]

RankMap(objs, m, snap) ==
  LET fin == SortByFinish(objs, FilterFinished(objs, snap))
      RECURSIVE Go(_, _)
      Go(mm, k) == IF k > Len(fin) THEN mm ELSE Go(MapSet(objs, mm, fin[k]), k + 1)
  IN Go(m, 1)

\* ------------------------------------------------- registry and fan-out

Reg ==
  [playerRaces |-> playerRaces, playerIds |-> playerIds,
   playerNames |-> playerNames, socketsByRace |-> socketsByRace]

SetReg(reg) ==
  /\ playerRaces' = reg.playerRaces
  /\ playerIds' = reg.playerIds
  /\ playerNames' = reg.playerNames
  /\ socketsByRace' = reg.socketsByRace

\* Map.set / Map.delete on a function whose domain is the key set
Put(f, k, v) == [x \in (DOMAIN f) \cup {k} |-> IF x = k THEN v ELSE f[x]]
Del(f, k) == [x \in (DOMAIN f) \ {k} |-> f[x]]
DelAll(f, ks) == [x \in (DOMAIN f) \ ks |-> f[x]]

\* socketsByRace.get(raceId) || new Set()
Members(reg, r) ==
  IF r \in DOMAIN reg.socketsByRace THEN reg.socketsByRace[r] ELSE {}

\* io.sockets.sockets
Open(ss) == {s \in Sockets : ss[s] = "open"}

\* mutant: every connected socket but the excluded one gets the message
RecipientsConnected(reg, ss, r, excl) == Open(ss) \ excl

\* mutant: the excluded socket gets the message too
RecipientsAll(reg, ss, r, excl) == Members(reg, r) \cap Open(ss)

\* broadcastToRace: the sockets that get the message
Recipients(reg, ss, r, excl) == (Members(reg, r) \ excl) \cap Open(ss)

\* mutant: stale socket references are kept
AfterBroadcastKeep(reg, ss, r, excl) == reg

\* broadcastToRace: stale socket references are dropped from the race's set
\* and from the three session maps
AfterBroadcast(reg, ss, r, excl) ==
  LET stale == (Members(reg, r) \ excl) \ Open(ss)
  IN IF stale = {} THEN reg
     ELSE [playerRaces   |-> DelAll(reg.playerRaces, stale),
           playerIds     |-> DelAll(reg.playerIds, stale),
           playerNames   |-> DelAll(reg.playerNames, stale),
           socketsByRace |-> [reg.socketsByRace EXCEPT ![r] = @ \ stale]]

\* a message of broadcastToRace, with the sockets it was delivered to
Bcast(reg, ss, r, type, excl) ==
  [type |-> type, text |-> "", race |-> r, to |-> Recipients(reg, ss, r, excl),
   bcast |-> TRUE]

\* mutant: the message goes to every connected socket
EmitAll(ss, s, r, type, text) ==
  [type |-> type, text |-> text, race |-> r, to |-> Open(ss), bcast |-> FALSE]

\* socket.emit('message', ...): delivered while the socket is connected
Emit(ss, s, r, type, text) ==
  [type |-> type, text |-> text, race |-> r, to |-> {s} \cap Open(ss),
   bcast |-> FALSE]

\* socketsInRace.delete(socket.id); if empty, socketsByRace.delete(raceId)
Detach(sbr, r, s) ==
  IF r \in DOMAIN sbr
  THEN IF sbr[r] \ {s} = {} THEN Del(sbr, r) ELSE [sbr EXCEPT ![r] = @ \ {s}]
  ELSE sbr

\* ------------------------------------------------------------------ tasks

\* a suspended async call: where it awaits, and its local variables
\* (had: the race was found; n: a length read; obj: the participant returned by
\* addParticipant; snap: an array of participant objects; upd: the payload);
\* at: the time its event was taken from the event loop
Task(kind, pc, s, r) ==
  [kind |-> kind, pc |-> pc, sock |-> s, race |-> r, had |-> HasRace(r),
   n |-> 0, obj |-> 0, snap |-> <<>>, upd |-> NoUpd, at |-> now]

Suspended == BagToSet(tasks)
At(kind, pc) == {t \in Suspended : t.kind = kind /\ t.pc = pc}

Spawned(t) == tasks (+) SetToBag({t})
Ended(t) == tasks (-) SetToBag({t})
Resumed(t, u) == (tasks (-) SetToBag({t})) (+) SetToBag({u})

\* objects no longer in the Map nor held by a task are garbage: the heap keeps
\* the reachable objects, in creation order, and references are renumbered
Commit(objs, m, tk) ==
  LET S == BagToSet(tk)
      live == {m[i] : i \in 1..Len(m)}
                \cup UNION {{t.snap[i] : i \in 1..Len(t.snap)} : t \in S}
                \cup {t.obj : t \in {x \in S : x.obj # 0}}
      ren(i) == Cardinality({j \in live : j <= i})
      old(k) == CHOOSE i \in live : ren(i) = k
      RenTask(t) == [t EXCEPT !.snap = [i \in 1..Len(t.snap) |-> ren(t.snap[i])],
                              !.obj = IF @ = 0 THEN 0 ELSE ren(@)]
  IN /\ pobj' = [k \in 1..Cardinality(live) |-> objs[old(k)]]
     /\ pmap' = [i \in 1..Len(m) |-> ren(m[i])]
     /\ tasks' = [u \in {RenTask(t) : t \in S} |->
                    tk[CHOOSE t \in S : RenTask(t) = u]]

\* a new handler may start while fewer than lim tasks are suspended
Room(lim) == BagCardinality(tasks) < lim

\* every join may schedule a timer: the model holds at most MaxTimers
\* timers, pending or about to be scheduled
TimerRoom ==
  BagCardinality(timers) + Cardinality({t \in Suspended : t.kind = "join"}) < MaxTimers

\* ------------------------------------------------------------------- Init

Init ==
  /\ now = 0
  /\ races = <<>>
  /\ pobj = <<>>
  /\ pmap = <<>>
  /\ sockState = [s \in Sockets |-> "new"]
  /\ playerRaces = <<>>
  /\ playerIds = <<>>
  /\ playerNames = <<>>
  /\ socketsByRace = <<>>
  /\ timers = EmptyBag
  /\ tasks = EmptyBag
  /\ sent = <<>>
  /\ filledAt = <<>>

\* ------------------------------------------------------------ environment

\* the clock advances, up to the horizon; a tick is long against the run of a
\* handler whose awaits are already resolved, so with one event at a time
\* (lim = 1) the clock advances between events
Tick(lim, horizon) ==
  /\ now < horizon
  /\ lim = 1 => tasks = EmptyBag
  /\ now' = now + 1
  /\ sent' = <<>>
  /\ UNCHANGED <<races, pobj, pmap, sockState, regVars, timers, tasks, filledAt>>

\* POST /api/races -> storage.createRace
CreateRace(mp, tl, lim, cap) ==
  /\ Room(lim)
  /\ Len(races) < cap
  /\ races' = Append(races, NewRace(mp, tl))
  /\ filledAt' = Append(filledAt, Null)
  /\ sent' = <<>>
  /\ UNCHANGED <<now, pobj, pmap, sockState, regVars, timers, tasks>>

\* io.on('connection'): a player id is generated and remembered
\* (socket ids are handed out in order: which id a new socket gets is immaterial)
Connect(s, lim) ==
  /\ Room(lim)
  /\ sockState[s] = "new"
  /\ \A q \in 1..(s - 1) : sockState[q] # "new"
  /\ sockState' = [sockState EXCEPT ![s] = "open"]
  /\ playerIds' = Put(playerIds, s, s)
  /\ sent' = <<>>
  /\ UNCHANGED <<now, races, pobj, pmap, playerRaces, playerNames,
                 socketsByRace, timers, tasks, filledAt>>

\* ---------------------------------------------------------------- join_race

\* mutant: only a missing race is refused
UnavailableMissing(t) == ~t.had

\* !race || race.status !== "waiting", read when the handler resumes
Unavailable(t) == IF t.had THEN races[t.race].status # "waiting" ELSE TRUE

\* participants.length >= race.maxPlayers
RaceFull(t) == t.n >= races[t.race].maxPlayers

\* mutant: one participant is enough
StartConditionOne(r, n) ==
  HasRace(r) /\ races[r].status = "waiting" /\ n >= 1

\* mutant: the status is not re-checked
StartConditionAnyStatus(r, n) == HasRace(r) /\ n >= MinPlayers

\* mutant: the callback starts any race it finds
StartConditionFound(r, n) == HasRace(r)

\* race && race.status === "waiting" && participants.length >= 2
StartCondition(r, n) ==
  HasRace(r) /\ races[r].status = "waiting" /\ n >= MinPlayers

\* socket.on('message') with type join_race: up to `await storage.getRace`
JoinStart(s, r, lim) ==
  /\ sockState[s] = "open"
  /\ Room(lim)
  /\ TimerRoom
  /\ Commit(pobj, pmap, Spawned(Task("join", "J_getRace", s, r)))
  /\ sent' = <<>>
  /\ UNCHANGED <<now, races, sockState, regVars, timers, filledAt>>

\* the race is missing or not waiting: error to the sender, return
JoinUnavailable(t) ==
  /\ t \in At("join", "J_getRace")
  /\ Unavailable(t)
  /\ Commit(pobj, pmap, Ended(t))
  /\ sent' = <<Emit(sockState, t.sock, t.race, "error", "Race not available for joining")>>
  /\ UNCHANGED <<now, races, sockState, regVars, timers, filledAt>>

\* the race is waiting: `await storage.getRaceParticipants`
JoinCount(t) ==
  /\ t \in At("join", "J_getRace")
  /\ ~Unavailable(t)
  /\ Commit(pobj, pmap, Resumed(t, [t EXCEPT !.pc = "J_getParticipants",
                                             !.n = Len(GetRaceParticipants(t.race))]))
  /\ sent' = <<>>
  /\ UNCHANGED <<now, races, sockState, regVars, timers, filledAt>>

\* the race is full: error to the sender, return
JoinFull(t) ==
  /\ t \in At("join", "J_getParticipants")
  /\ RaceFull(t)
  /\ Commit(pobj, pmap, Ended(t))
  /\ sent' = <<Emit(sockState, t.sock, t.race, "error", "Race is full")>>
  /\ UNCHANGED <<now, races, sockState, regVars, timers, filledAt>>

\* `await storage.addParticipant`: a new object, set into the Map under its key
JoinAdd(t) ==
  LET objs == Append(pobj, NewParticipant(t.race, t.sock))
      m == MapSet(objs, pmap, Len(objs))
  IN /\ t \in At("join", "J_getParticipants")
     /\ ~RaceFull(t)
     /\ Commit(objs, m, Resumed(t, [t EXCEPT !.pc = "J_addParticipant", !.n = 0,
                                             !.obj = Len(objs)]))
     /\ filledAt' = IF Len(m) > Len(pmap)
                        /\ Len(RaceParticipantsOf(objs, m, t.race)) = MinPlayers
                    THEN [filledAt EXCEPT ![t.race] = now]
                    ELSE filledAt
     /\ sent' = <<>>
     /\ UNCHANGED <<now, races, sockState, regVars, timers>>

\* track the socket, then `await storage.getRaceParticipants`
JoinTrack(t) ==
  /\ t \in At("join", "J_addParticipant")
  /\ playerRaces' = Put(playerRaces, t.sock, t.race)
  /\ playerNames' = Put(playerNames, t.sock, "name")
  /\ socketsByRace' = Put(socketsByRace, t.race, Members(Reg, t.race) \cup {t.sock})
  /\ Commit(pobj, pmap, Resumed(t, [t EXCEPT !.pc = "J_getUpdated",
                                             !.snap = GetRaceParticipants(t.race)]))
  /\ sent' = <<>>
  /\ UNCHANGED <<now, races, sockState, playerIds, timers, filledAt>>

\* race_update to the joiner, player_joined to the others, race_update to all,
\* then checkRaceStart up to its `await storage.getRace`
JoinAnnounce(t) ==
  LET r == t.race
      reg1 == AfterBroadcast(Reg, sockState, r, {t.sock})
      reg2 == AfterBroadcast(reg1, sockState, r, {})
  IN /\ t \in At("join", "J_getUpdated")
     /\ SetReg(reg2)
     /\ Commit(pobj, pmap, Resumed(t, [t EXCEPT !.pc = "J_crsGetRace", !.snap = <<>>,
                                                !.obj = 0, !.had = HasRace(r)]))
     /\ sent' = <<Emit(sockState, t.sock, r, "race_update", ""),
                  Bcast(Reg, sockState, r, "player_joined", {t.sock}),
                  Bcast(reg1, sockState, r, "race_update", {})>>
     /\ UNCHANGED <<now, races, sockState, timers, filledAt>>

\* checkRaceStart: `await storage.getRaceParticipants`
JoinCrsCount(t) ==
  /\ t \in At("join", "J_crsGetRace")
  /\ Commit(pobj, pmap, Resumed(t, [t EXCEPT !.pc = "J_crsGetParticipants",
                                             !.n = Len(GetRaceParticipants(t.race))]))
  /\ sent' = <<>>
  /\ UNCHANGED <<now, races, sockState, regVars, timers, filledAt>>

\* checkRaceStart: setTimeout(..., 5000) when waiting with >= 2 participants
JoinSchedule(t) ==
  /\ t \in At("join", "J_crsGetParticipants")
  /\ StartCondition(t.race, t.n)
  /\ timers' = timers (+) SetToBag({[race |-> t.race, due |-> now + StartDelay]})
  /\ Commit(pobj, pmap, Ended(t))
  /\ sent' = <<>>
  /\ UNCHANGED <<now, races, sockState, regVars, filledAt>>

\* checkRaceStart: no timer
JoinNoSchedule(t) ==
  /\ t \in At("join", "J_crsGetParticipants")
  /\ ~StartCondition(t.race, t.n)
  /\ Commit(pobj, pmap, Ended(t))
  /\ sent' = <<>>
  /\ UNCHANGED <<now, races, sockState, regVars, timers, filledAt>>

\* --------------------------------------------------------------- leave_race

\* up to `await storage.removeParticipant(raceId, currentPlayerId)`
LeaveStart(s, r, lim) ==
  /\ sockState[s] = "open"
  /\ Room(lim)
  /\ Commit(pobj, MapDelete(pobj, pmap, r, s), Spawned(Task("leave", "L_remove", s, r)))
  /\ sent' = <<>>
  /\ UNCHANGED <<now, races, sockState, regVars, timers, filledAt>>

\* clean the tracking data, broadcast player_left
LeaveFinish(t) ==
  LET reg1 == [Reg EXCEPT !.playerRaces = Del(@, t.sock),
                          !.playerNames = Del(@, t.sock),
                          !.socketsByRace = Detach(@, t.race, t.sock)]
  IN /\ t \in At("leave", "L_remove")
     /\ SetReg(AfterBroadcast(reg1, sockState, t.race, {}))
     /\ Commit(pobj, pmap, Ended(t))
     /\ sent' = <<Bcast(reg1, sockState, t.race, "player_left", {})>>
     /\ UNCHANGED <<now, races, sockState, timers, filledAt>>

\* --------------------------------------------------------------- disconnect

\* socket.on('disconnect'): the socket is already out of io.sockets.sockets.
\* Attached: up to `await storage.removeParticipant`.
DisconnectAttached(s, lim) ==
  /\ sockState[s] = "open"
  /\ Room(lim)
  /\ s \in DOMAIN playerRaces /\ s \in DOMAIN playerIds
  /\ sockState' = [sockState EXCEPT ![s] = "closed"]
  /\ Commit(pobj, MapDelete(pobj, pmap, playerRaces[s], playerIds[s]),
            Spawned(Task("disconnect", "D_remove", s, playerRaces[s])))
  /\ sent' = <<>>
  /\ UNCHANGED <<now, races, regVars, timers, filledAt>>

\* Not attached: no await, the tracking data is cleaned at once.
DisconnectFree(s, lim) ==
  /\ Room(lim)
  /\ sockState[s] = "open"
  /\ ~(s \in DOMAIN playerRaces /\ s \in DOMAIN playerIds)
  /\ sockState' = [sockState EXCEPT ![s] = "closed"]
  /\ SetReg([Reg EXCEPT !.playerRaces = Del(@, s), !.playerIds = Del(@, s),
                        !.playerNames = Del(@, s),
                        !.socketsByRace = IF s \in DOMAIN playerRaces
                                          THEN Detach(@, playerRaces[s], s) ELSE @])
  /\ sent' = <<>>
  /\ UNCHANGED <<now, races, pobj, pmap, timers, tasks, filledAt>>

\* after the await: broadcast player_left, clean the tracking data
DisconnectFinish(t) ==
  LET reg1 == AfterBroadcast(Reg, sockState, t.race, {})
      reg2 == [reg1 EXCEPT !.playerRaces = Del(@, t.sock), !.playerIds = Del(@, t.sock),
                           !.playerNames = Del(@, t.sock),
                           !.socketsByRace = Detach(@, t.race, t.sock)]
  IN /\ t \in At("disconnect", "D_remove")
     /\ SetReg(reg2)
     /\ Commit(pobj, pmap, Ended(t))
     /\ sent' = <<Bcast(Reg, sockState, t.race, "player_left", {})>>
     /\ UNCHANGED <<now, races, sockState, timers, filledAt>>

\* ------------------------------------------------------------ typing_update

\* mutant: only a missing race is ignored
NotActiveMissing(t) == ~t.had

\* !race || race.status !== "active", read when the handler resumes
NotActive(t) == IF t.had THEN races[t.race].status # "active" ELSE TRUE

\* mutant: the text counts as complete only past its end
CompletedBeyond(u) == u.progress > PassageLen

\* progress >= race.textPassage.length
Completed(u) == u.progress >= PassageLen

\* mutant: the time limit is not looked at
FinishConditionAllOnly(objs, snap, race, t) ==
  Len(snap) > 0 /\ Len(FilterFinished(objs, snap)) = Len(snap)

\* mutant: the time limit must be exceeded
FinishConditionStrict(objs, snap, race, t) ==
  \/ Len(snap) > 0 /\ Len(FilterFinished(objs, snap)) = Len(snap)
  \/ t - TimeOf(race.startedAt) > race.timeLimit

\* checkRaceFinish: (participants.length > 0 && all finished) || elapsed >= timeLimit,
\* over the array `snap` of participant objects
FinishCondition(objs, snap, race, t) ==
  \/ Len(snap) > 0 /\ Len(FilterFinished(objs, snap)) = Len(snap)
  \/ t - TimeOf(race.startedAt) >= race.timeLimit

\* up to `await storage.getRace`
TypingStart(s, r, u, lim) ==
  /\ sockState[s] = "open"
  /\ Room(lim)
  /\ Commit(pobj, pmap, Spawned([Task("typing", "T_getRace", s, r) EXCEPT !.upd = u]))
  /\ sent' = <<>>
  /\ UNCHANGED <<now, races, sockState, regVars, timers, filledAt>>

\* the race is missing or not active: return
TypingIgnored(t) ==
  /\ t \in At("typing", "T_getRace")
  /\ NotActive(t)
  /\ Commit(pobj, pmap, Ended(t))
  /\ sent' = <<>>
  /\ UNCHANGED <<now, races, sockState, regVars, timers, filledAt>>

\* `await storage.updateParticipantProgress`
TypingUpdate(t) ==
  /\ t \in At("typing", "T_getRace")
  /\ ~NotActive(t)
  /\ Commit(UpdateParticipantProgress(pobj, pmap, t.race, t.sock, t.upd), pmap,
            Resumed(t, [t EXCEPT !.pc = "T_update"]))
  /\ sent' = <<>>
  /\ UNCHANGED <<now, races, sockState, regVars, timers, filledAt>>

\* the text is complete: `await storage.finishParticipant`
TypingFinishPlayer(t) ==
  /\ t \in At("typing", "T_update")
  /\ Completed(t.upd)
  /\ Commit(FinishParticipant(pobj, pmap, t.race, t.sock, now), pmap,
            Resumed(t, [t EXCEPT !.pc = "T_finish"]))
  /\ sent' = <<>>
  /\ UNCHANGED <<now, races, sockState, regVars, timers, filledAt>>

\* `await storage.getRaceParticipants`; the `await storage.getRace` that
\* follows reads nothing (it returns the race object), so it adds no step
TypingSnapshot(t) ==
  /\ \/ t \in At("typing", "T_update") /\ ~Completed(t.upd)
     \/ t \in At("typing", "T_finish")
  /\ Commit(pobj, pmap, Resumed(t, [t EXCEPT !.pc = "T_getUpdatedRace",
                                             !.snap = GetRaceParticipants(t.race)]))
  /\ sent' = <<>>
  /\ UNCHANGED <<now, races, sockState, regVars, timers, filledAt>>

\* broadcast race_update, then checkRaceFinish up to its `await storage.getRace`
TypingBroadcast(t) ==
  /\ t \in At("typing", "T_getUpdatedRace")
  /\ SetReg(AfterBroadcast(Reg, sockState, t.race, {}))
  /\ Commit(pobj, pmap, Resumed(t, [t EXCEPT !.pc = "F_getRace", !.snap = <<>>]))
  /\ sent' = <<Bcast(Reg, sockState, t.race, "race_update", {})>>
  /\ UNCHANGED <<now, races, sockState, timers, filledAt>>

\* checkRaceFinish: `await storage.getRaceParticipants`
FinishCount(t) ==
  /\ t \in At("typing", "F_getRace")
  /\ Commit(pobj, pmap, Resumed(t, [t EXCEPT !.pc = "F_getParticipants",
                                             !.snap = GetRaceParticipants(t.race)]))
  /\ sent' = <<>>
  /\ UNCHANGED <<now, races, sockState, regVars, timers, filledAt>>

\* mutant: the finish check does not look at the status
ShouldFinishAnyStatus(t) == FinishCondition(pobj, t.snap, races[t.race], now)

\* race && race.status === "active" and the finish condition
ShouldFinish(t) ==
  /\ races[t.race].status = "active"
  /\ FinishCondition(pobj, t.snap, races[t.race], now)

\* checkRaceFinish: `await storage.setRaceFinishTime`
FinishRace(t) ==
  /\ t \in At("typing", "F_getParticipants")
  /\ ShouldFinish(t)
  /\ races' = SetRaceFinishTime(races, t.race, now)
  /\ Commit(pobj, pmap, Resumed(t, [t EXCEPT !.pc = "F_setFinish", !.snap = <<>>]))
  /\ sent' = <<>>
  /\ UNCHANGED <<now, sockState, regVars, timers, filledAt>>

\* checkRaceFinish: nothing to do
FinishNot(t) ==
  /\ t \in At("typing", "F_getParticipants")
  /\ ~ShouldFinish(t)
  /\ Commit(pobj, pmap, Ended(t))
  /\ sent' = <<>>
  /\ UNCHANGED <<now, races, sockState, regVars, timers, filledAt>>

\* updateParticipantRanks up to its inner `await this.getRaceParticipants`
FinishRanksCall(t) ==
  /\ t \in At("typing", "F_setFinish")
  /\ Commit(pobj, pmap, Resumed(t, [t EXCEPT !.pc = "F_ranksInner",
                                             !.snap = GetRaceParticipants(t.race)]))
  /\ sent' = <<>>
  /\ UNCHANGED <<now, races, sockState, regVars, timers, filledAt>>

\* updateParticipantRanks after its inner await: filter, sort, rank, Map.set
FinishRanksAssign(t) ==
  /\ t \in At("typing", "F_ranksInner")
  /\ Commit(RankObjs(pobj, t.snap), RankMap(pobj, pmap, t.snap),
            Resumed(t, [t EXCEPT !.pc = "F_ranks", !.snap = <<>>]))
  /\ sent' = <<>>
  /\ UNCHANGED <<now, races, sockState, regVars, timers, filledAt>>

\* checkRaceFinish: `await storage.getRaceParticipants` for the results
FinishResults(t) ==
  /\ t \in At("typing", "F_ranks")
  /\ Commit(pobj, pmap, Resumed(t, [t EXCEPT !.pc = "F_getResults",
                                             !.snap = GetRaceParticipants(t.race)]))
  /\ sent' = <<>>
  /\ UNCHANGED <<now, races, sockState, regVars, timers, filledAt>>

\* checkRaceFinish: broadcast race_finished
FinishBroadcast(t) ==
  /\ t \in At("typing", "F_getResults")
  /\ SetReg(AfterBroadcast(Reg, sockState, t.race, {}))
  /\ Commit(pobj, pmap, Ended(t))
  /\ sent' = <<Bcast(Reg, sockState, t.race, "race_finished", {})>>
  /\ UNCHANGED <<now, races, sockState, timers, filledAt>>

\* -------------------------------------------------------- the start timer

\* mutant: the callback waits for the clock to pass the due time
TimerDueLate(tm) == now > tm.due

\* setTimeout fires no earlier than its delay
TimerDue(tm) == now >= tm.due

\* the callback runs up to `await storage.getRace`
TimerFire(tm, lim) ==
  /\ tm \in BagToSet(timers)
  /\ TimerDue(tm)
  /\ Room(lim)
  /\ timers' = timers (-) SetToBag({tm})
  /\ Commit(pobj, pmap, Spawned(Task("timer", "S_getRace", 0, tm.race)))
  /\ sent' = <<>>
  /\ UNCHANGED <<now, races, sockState, regVars, filledAt>>

\* `await storage.getRaceParticipants`
StartCount(t) ==
  /\ t \in At("timer", "S_getRace")
  /\ Commit(pobj, pmap, Resumed(t, [t EXCEPT !.pc = "S_getParticipants",
                                             !.snap = GetRaceParticipants(t.race)]))
  /\ sent' = <<>>
  /\ UNCHANGED <<now, races, sockState, regVars, timers, filledAt>>

\* the re-check holds: `await storage.setRaceStartTime`; the
\* `await storage.getRace` that follows reads nothing and adds no step
StartRace(t) ==
  /\ t \in At("timer", "S_getParticipants")
  /\ StartCondition(t.race, Len(t.snap))
  /\ races' = SetRaceStartTime(races, t.race, now)
  /\ Commit(pobj, pmap, Resumed(t, [t EXCEPT !.pc = "S_getUpdated"]))
  /\ sent' = <<>>
  /\ UNCHANGED <<now, sockState, regVars, timers, filledAt>>

\* the re-check fails: the callback ends
StartNot(t) ==
  /\ t \in At("timer", "S_getParticipants")
  /\ ~StartCondition(t.race, Len(t.snap))
  /\ Commit(pobj, pmap, Ended(t))
  /\ sent' = <<>>
  /\ UNCHANGED <<now, races, sockState, regVars, timers, filledAt>>

\* mutant: race_update is broadcast before race_started
StartBroadcastUpdateFirst(t) ==
  LET reg1 == AfterBroadcast(Reg, sockState, t.race, {})
  IN /\ t \in At("timer", "S_getUpdated")
     /\ SetReg(AfterBroadcast(reg1, sockState, t.race, {}))
     /\ Commit(pobj, pmap, Ended(t))
     /\ sent' = <<Bcast(Reg, sockState, t.race, "race_update", {}),
                  Bcast(reg1, sockState, t.race, "race_started", {})>>
     /\ UNCHANGED <<now, races, sockState, timers, filledAt>>

\* broadcast race_started, then race_update
StartBroadcast(t) ==
  LET reg1 == AfterBroadcast(Reg, sockState, t.race, {})
  IN /\ t \in At("timer", "S_getUpdated")
     /\ SetReg(AfterBroadcast(reg1, sockState, t.race, {}))
     /\ Commit(pobj, pmap, Ended(t))
     /\ sent' = <<Bcast(Reg, sockState, t.race, "race_started", {}),
                  Bcast(reg1, sockState, t.race, "race_update", {})>>
     /\ UNCHANGED <<now, races, sockState, timers, filledAt>>

\* ------------------------------------------------- other inbound messages

\* a message whose type matches no case of the switch: the handler returns,
\* nothing is sent
UnknownMessage(s, lim) ==
  /\ sockState[s] = "open"
  /\ Room(lim)
  /\ sent' = <<>>
  /\ UNCHANGED <<now, races, pobj, pmap, sockState, regVars, timers, tasks, filledAt>>

\* a message that is null or has no data: reading message.type or
\* destructuring message.data throws inside the try, the catch answers
MalformedMessage(s, lim) ==
  /\ sockState[s] = "open"
  /\ Room(lim)
  /\ sent' = <<Emit(sockState, s, 0, "error", "Invalid message format")>>
  /\ UNCHANGED <<now, races, pobj, pmap, sockState, regVars, timers, tasks, filledAt>>

\* ---------------------------------------------------- rejected Store calls

\* the awaits of typing_update inside its inner try
InnerTry ==
  {"T_update", "T_finish", "T_getUpdatedRace", "F_getRace", "F_getParticipants",
   "F_setFinish", "F_ranksInner", "F_ranks", "F_getResults"}

\* the rejection is caught by the inner catch of typing_update (console.error)
CaughtInside(t) == t.kind = "typing" /\ t.pc \in InnerTry

\* the Promise a message handler awaits rejects (IStorage allows it, MemStorage
\* never does): control goes to the enclosing catch and the handler ends
Rejected(t) ==
  /\ t \in Suspended
  /\ t.kind \in {"join", "leave", "typing"}
  /\ Commit(pobj, pmap, Ended(t))
  /\ sent' = IF CaughtInside(t) THEN <<>>
             ELSE <<Emit(sockState, t.sock, t.race, "error", "Invalid message format")>>
  /\ UNCHANGED <<now, races, sockState, regVars, timers, filledAt>>

\* ------------------------------------------------------------ specification

\* races are created, sockets connect and join
Joining(lim, cap) ==
  \/ \E mp \in MaxPlayersIn, tl \in TimeLimitIn : CreateRace(mp, tl, lim, cap)
  \/ \E s \in Sockets : Connect(s, lim)
  \/ \E s \in Sockets, r \in RaceIds : JoinStart(s, r, lim)
  \/ \E t \in Suspended : JoinUnavailable(t)
  \/ \E t \in Suspended : JoinCount(t)
  \/ \E t \in Suspended : JoinFull(t)
  \/ \E t \in Suspended : JoinAdd(t)
  \/ \E t \in Suspended : JoinTrack(t)
  \/ \E t \in Suspended : JoinAnnounce(t)
  \/ \E t \in Suspended : JoinCrsCount(t)
  \/ \E t \in Suspended : JoinSchedule(t)
  \/ \E t \in Suspended : JoinNoSchedule(t)

\* sockets disconnect
Disconnecting(lim) ==
  \/ \E s \in Sockets : DisconnectAttached(s, lim)
  \/ \E s \in Sockets : DisconnectFree(s, lim)
  \/ \E t \in Suspended : DisconnectFinish(t)

\* sockets leave and disconnect
Leaving(lim) ==
  \/ \E s \in Sockets, r \in RaceIds : LeaveStart(s, r, lim)
  \/ \E t \in Suspended : LeaveFinish(t)
  \/ Disconnecting(lim)

\* the waiting room: races are created, sockets connect, join, leave and
\* disconnect
Lobby(lim, cap) == Joining(lim, cap) \/ Leaving(lim)

\* the start countdown: the clock and the timer callback
Starting(lim, horizon) ==
  \/ Tick(lim, horizon)
  \/ \E tm \in BagToSet(timers) : TimerFire(tm, lim)
  \/ \E t \in Suspended : StartCount(t)
  \/ \E t \in Suspended : StartRace(t)
  \/ \E t \in Suspended : StartNot(t)
  \/ \E t \in Suspended : StartBroadcast(t)

\* typing updates and the finish check
Typing(lim) ==
  \/ \E s \in Sockets, r \in RaceIds, u \in Updates : TypingStart(s, r, u, lim)
  \/ \E t \in Suspended : TypingIgnored(t)
  \/ \E t \in Suspended : TypingUpdate(t)
  \/ \E t \in Suspended : TypingFinishPlayer(t)
  \/ \E t \in Suspended : TypingSnapshot(t)
  \/ \E t \in Suspended : TypingBroadcast(t)
  \/ \E t \in Suspended : FinishCount(t)
  \/ \E t \in Suspended : FinishRace(t)
  \/ \E t \in Suspended : FinishNot(t)
  \/ \E t \in Suspended : FinishRanksCall(t)
  \/ \E t \in Suspended : FinishRanksAssign(t)
  \/ \E t \in Suspended : FinishResults(t)
  \/ \E t \in Suspended : FinishBroadcast(t)

\* messages the switch has no case for, and messages that make it throw
Inbound(lim) ==
  \/ \E s \in Sockets : UnknownMessage(s, lim)
  \/ \E s \in Sockets : MalformedMessage(s, lim)

Next(lim, horizon) ==
  Lobby(lim, MaxRaces) \/ Starting(lim, horizon) \/ Typing(lim) \/ Inbound(lim)

\* events run to completion one after the other (MemStorage under the event
\* loop): a handler or timer callback starts when no task is suspended
Spec == Init /\ [][Next(1, MaxTime)]_vars

\* the waiting room under the IStorage contract (every call returns a Promise
\* that may resolve late): up to MaxInFlight join, leave and disconnect
\* handlers are suspended at Store calls at once and resume in any order
SpecAsync == Init /\ [][Lobby(MaxInFlight, MaxRaces)]_vars

\* the life of a race up to its start, one event at a time (a typing_update
\* before the start is ignored, see TypingIgnored)
NextLive == Lobby(1, MaxRaces) \/ Starting(1, MaxTime)

\* a suspended task resumes: with one event at a time, any step taken while a
\* task is suspended is a step of that task
Resume == tasks # EmptyBag /\ NextLive

\* the scheduling of the event loop: a suspended handler resumes, and between
\* events the clock advances and a due timer callback is run
SpecLive ==
  /\ Init /\ [][NextLive]_vars
  /\ WF_vars(Resume)
  /\ SF_vars(Tick(1, MaxTime))
  /\ SF_vars(\E tm \in BagToSet(timers) : TimerFire(tm, 1))

\* the waiting rooms of up to MaxRooms races, one event at a time: a socket
\* may join one race after another
SpecRooms == Init /\ [][Lobby(1, MaxRooms)]_vars

\* the Store under the IStorage contract, one event at a time: a call awaited
\* by a message handler may reject (the clock runs up to the first start)
SpecFaulty == Init /\ [][Next(1, StartDelay) \/ \E t \in Suspended : Rejected(t)]_vars

\* typing under the IStorage contract: races fill and start and sockets
\* disconnect one event at a time, and up to MaxInFlight typing_update handlers
\* are suspended at Store calls at once and resume in any order, while the
\* clock advances
NextTyping ==
  \/ Joining(1, MaxRaces)
  \/ Disconnecting(1)
  \/ Starting(1, MaxTime)
  \/ Typing(MaxInFlight)
  \/ Tick(MaxInFlight, MaxTime)

SpecTyping == Init /\ [][NextTyping]_vars

\* the start countdown under the IStorage contract: up to MaxInFlight join_race
\* handlers and timer callbacks are suspended at Store calls at once and resume
\* in any order, while the clock runs up to the first start
NextCountdown == Joining(MaxInFlight, MaxRaces) \/ Starting(MaxInFlight, StartDelay)

SpecCountdown == Init /\ [][NextCountdown]_vars

\* ------------------------------------------------------------------ claims

Created == 1..Len(races)
Count(r) == Len(GetRaceParticipants(r))

\* C1: a race's status only ever changes waiting -> active or active -> finished:
\* nothing leaves finished, nothing returns to waiting, and waiting never goes
\* directly to finished.
C1_StatusLifecycle ==
  [][\A r \in Created :
       \/ races'[r].status = races[r].status
       \/ races[r].status = "waiting" /\ races'[r].status = "active"
       \/ races[r].status = "active" /\ races'[r].status = "finished"]_vars

\* a race that went through both transitions, with a start timer still pending
C1_Witness ==
  \E r \in Created :
    /\ races[r].status = "finished"
    /\ \E tm \in BagToSet(timers) : tm.race = r

\* C2: startedAt is set exactly when the status is active or finished, and
\* finishedAt exactly when it is finished.
C2_TimestampsMatchStatus ==
  \A r \in Created :
    /\ (races[r].startedAt # Null) <=> (races[r].status \in {"active", "finished"})
    /\ (races[r].finishedAt # Null) <=> (races[r].status = "finished")

C2_Witness ==
  \E r \in Created :
    /\ races[r].status = "finished"
    /\ races[r].startedAt # Null
    /\ races[r].finishedAt # Null
    /\ races[r].finishedAt > races[r].startedAt

\* C3: a race never holds more participants than its maxPlayers, also while
\* several joins of the race are suspended at Store calls and interleave.
C3_CapacityNeverExceeded ==
  \A r \in Created : Count(r) <= races[r].maxPlayers

\* C4: a join naming a race that does not exist, or one that is active or
\* finished, produces one error to the joiner and nothing else: no participant,
\* no registry entry, no broadcast, no timer, and the handler ends there.
C4_UnavailableJoinRejected ==
  [][\A t \in At("join", "J_getRace") :
       (IF HasRace(t.race) THEN races[t.race].status \in {"active", "finished"} ELSE TRUE)
       => /\ sent' = <<[type |-> "error", text |-> "Race not available for joining",
                        race |-> t.race, to |-> {t.sock}, bcast |-> FALSE]>>
          /\ tasks' = EmptyBag
          /\ UNCHANGED <<races, pobj, pmap, regVars, timers>>]_vars

\* the error was just sent for a race that is active
C4_Witness ==
  /\ tasks = EmptyBag
  /\ Len(sent) = 1
  /\ sent[1].type = "error"
  /\ sent[1].text = "Race not available for joining"
  /\ sent[1].to # {}
  /\ HasRace(sent[1].race)
  /\ races[sent[1].race].status = "active"

C6_StartNeedsTwo ==
  [][\A r \in Created :
       (races[r].status = "waiting" /\ races'[r].status = "active")
       => Count(r) >= 2]_vars

\* a race was just started, and it has two participants
C6_Witness ==
  \E t \in At("timer", "S_getUpdated") :
    /\ races[t.race].status = "active"
    /\ races[t.race].startedAt = now
    /\ Count(t.race) = 2

\* two participants are in a waiting race, and the clock can still reach the
\* due time of a timer set now
TwoJoined(r) ==
  /\ HasRace(r)
  /\ races[r].status = "waiting"
  /\ Count(r) >= 2
  /\ now + StartDelay <= MaxTime

Started(r) ==
  /\ races[r].status = "active"
  /\ races[r].startedAt # Null
  /\ \E k \in 1..Len(sent) :
       sent[k].type = "race_started" /\ sent[k].race = r /\ sent[k].bcast

\* C7: once two players are joined to a waiting race, either one of them does
\* not stay, or the race becomes active with startedAt set and race_started is
\* broadcast.
C7_TwoJoinedLeadsToStart ==
  \A r \in 1..MaxRaces : TwoJoined(r) ~> (Count(r) < 2 \/ Started(r))

\* race_started has just reached both members of the started race
C7_Witness ==
  \E r \in Created :
    /\ Started(r)
    /\ Count(r) = 2
    /\ \E k \in 1..Len(sent) :
         sent[k].type = "race_started" /\ Cardinality(sent[k].to) = 2

\* C8: a typing_update naming a race that is waiting, finished or missing
\* changes no participant and no race, sends nothing, and ends there (no
\* finish check follows).
C8_TypingOutsideActiveIgnored ==
  [][\A t \in At("typing", "T_getRace") :
       (IF HasRace(t.race) THEN races[t.race].status \in {"waiting", "finished"} ELSE TRUE)
       => /\ sent' = <<>>
          /\ tasks' = EmptyBag
          /\ UNCHANGED <<races, pobj, pmap, regVars, timers>>]_vars

\* a participant of a finished race has sent an update that completes the text
C8_Witness ==
  \E t \in At("typing", "T_getRace") :
    /\ HasRace(t.race)
    /\ races[t.race].status = "finished"
    /\ Completed(t.upd)
    /\ KeyIdx(pobj, pmap, t.race, t.sock) # 0

AllFinished(r) ==
  /\ Count(r) > 0
  /\ \A i \in 1..Len(pmap) : pobj[pmap[i]].raceId = r => pobj[pmap[i]].finished

Expired(r) == now - races[r].startedAt >= races[r].timeLimit

\* C9: the finish check of an accepted typing_update finishes the race exactly
\* when every current participant (at least one) is finished or the time limit
\* has elapsed; otherwise the race stays active and the event ends silently.
\* race_finished is only broadcast in an event that finished the race.
C9_FinishIffCondition ==
  [][/\ \A t \in At("typing", "F_getParticipants") :
          IF AllFinished(t.race) \/ Expired(t.race)
          THEN races'[t.race].status = "finished" /\ races'[t.race].finishedAt = now
          ELSE /\ races'[t.race].status = "active"
               /\ tasks' = EmptyBag
               /\ sent' = <<>>
     /\ \A k \in 1..Len(sent') :
          sent'[k].type = "race_finished"
          => races'[sent'[k].race].finishedAt = now']_vars

\* the race was just finished by the time limit, with a participant unfinished
C9_Witness ==
  \E t \in At("typing", "F_setFinish") :
    /\ races[t.race].status = "finished"
    /\ races[t.race].finishedAt = now
    /\ Count(t.race) > 0
    /\ ~AllFinished(t.race)

RanksOf(r) ==
  LET ps == GetRaceParticipants(r)
  IN {i \in 1..Len(ps) : pobj[ps[i]].finished}

\* C10: once the ranks of a finishing race are assigned, its finished
\* participants hold the ranks 1..N, each once, in ascending order of finish
\* time, equal times in insertion order.
C10_RanksByFinishTime ==
  \A t \in Suspended :
    (t.kind = "typing" /\ t.pc \in {"F_ranks", "F_getResults"})
    => LET ps == GetRaceParticipants(t.race)
           fin == RanksOf(t.race)
       IN /\ {pobj[ps[i]].rank : i \in fin} = 1..Cardinality(fin)
          /\ \A i, j \in fin :
               \/ pobj[ps[i]].finishedAt < pobj[ps[j]].finishedAt
               \/ pobj[ps[i]].finishedAt = pobj[ps[j]].finishedAt /\ i < j
               => pobj[ps[i]].rank < pobj[ps[j]].rank

\* ranks assigned where the participant inserted later finished earlier
C10_Witness ==
  \E t \in At("typing", "F_ranks") :
    LET ps == GetRaceParticipants(t.race)
    IN /\ Len(ps) = 2
       /\ pobj[ps[1]].finished /\ pobj[ps[2]].finished
       /\ pobj[ps[2]].finishedAt < pobj[ps[1]].finishedAt
       /\ pobj[ps[2]].rank = 1
       /\ pobj[ps[1]].rank = 2

\* the ranks of race r are being assigned: its finish time is set and
\* updateParticipantRanks has not yet returned
RanksPending(r) ==
  \E t \in Suspended :
    t.kind = "typing" /\ t.race = r /\ t.pc \in {"F_setFinish", "F_ranksInner"}

\* C11 (as stated): a participant has a rank exactly when it is finished.
C11_RankIffFinished ==
  \A i \in 1..Len(pmap) :
    (pobj[pmap[i]].rank # Null) <=> pobj[pmap[i]].finished

\* C11 (amended): an unfinished participant never has a rank; a finished
\* participant has one once its race is finished and the ranks are assigned.
C11_RankOnceRaceFinished ==
  \A i \in 1..Len(pmap) :
    LET p == pobj[pmap[i]]
    IN /\ p.rank # Null => p.finished
       /\ (p.finished /\ races[p.raceId].status = "finished" /\ ~RanksPending(p.raceId))
          => p.rank # Null

\* a race finished by the time limit: one participant ranked, one unfinished
\* and without a rank
C11_Witness ==
  /\ tasks = EmptyBag
  /\ \E i, j \in 1..Len(pmap) :
       /\ pobj[pmap[i]].raceId = pobj[pmap[j]].raceId
       /\ races[pobj[pmap[i]].raceId].status = "finished"
       /\ pobj[pmap[i]].finished /\ pobj[pmap[i]].rank = 1
       /\ ~pobj[pmap[j]].finished /\ pobj[pmap[j]].rank = Null

\* C12: a typing_update handled for an active race whose time limit has
\* elapsed does not end before the race is finished, whatever its progress
\* value, and in the results then fetched for race_finished an unfinished
\* participant has no rank.
C12_ExpiredRaceFinishesOnUpdate ==
  [][/\ \A t \in Suspended :
          (/\ t.kind = "typing"
           /\ HasRace(t.race)
           /\ races[t.race].status = "active"
           /\ Expired(t.race))
          => (tasks' # EmptyBag \/ races'[t.race].status = "finished")
     /\ \A t \in At("typing", "F_getResults") :
          /\ races[t.race].status = "finished"
          /\ \A k \in 1..Len(t.snap) :
               ~pobj[t.snap[k]].finished => pobj[t.snap[k]].rank = Null]_vars

\* the results of a race finished by the time limit on an update that does
\* not complete the text: a participant is unfinished and has no rank
C12_Witness ==
  \E t \in At("typing", "F_getResults") :
    /\ ~Completed(t.upd)
    /\ races[t.race].finishedAt - races[t.race].startedAt >= races[t.race].timeLimit
    /\ \E k \in 1..Len(t.snap) :
         ~pobj[t.snap[k]].finished /\ pobj[t.snap[k]].rank = Null

\* every participant of race r other than player p is finished
OthersFinished(r, p) ==
  \A i \in 1..Len(pmap) :
    (pobj[pmap[i]].raceId = r /\ pobj[pmap[i]].playerId # p) => pobj[pmap[i]].finished

\* C13: when an update completing the text is handled for the last unfinished
\* participant of an active race, that event marks the participant finished
\* at the current time, finishes the race, ranks every participant 1..N, and
\* ends by broadcasting race_finished to every connected member.
C13_LastFinisherEndsRace ==
  [][/\ \A t \in At("typing", "T_update") :
          (/\ races[t.race].status = "active"
           /\ t.upd.progress >= PassageLen
           /\ KeyIdx(pobj, pmap, t.race, t.sock) # 0
           /\ OthersFinished(t.race, t.sock))
          => LET k == KeyIdx(pobj', pmap', t.race, t.sock)
             IN /\ k # 0
                /\ pobj'[pmap'[k]].finished
                /\ pobj'[pmap'[k]].finishedAt = now
                /\ tasks' # EmptyBag
     /\ \A t \in Suspended :
          (/\ t.kind = "typing"
           /\ t.pc \in {"T_finish", "T_getUpdatedRace", "F_getRace", "F_getParticipants"}
           /\ races[t.race].status = "active"
           /\ AllFinished(t.race))
          => /\ tasks' # EmptyBag
             /\ t.pc = "F_getParticipants"
                => races'[t.race].status = "finished" /\ races'[t.race].finishedAt = now
     /\ \A t \in Suspended :
          (t.kind = "typing" /\ t.pc \in {"F_setFinish", "F_ranksInner", "F_ranks"})
          => tasks' # EmptyBag
     /\ \A t \in At("typing", "F_getResults") :
          AllFinished(t.race)
          => /\ t.snap = GetRaceParticipants(t.race)
             /\ {pobj[t.snap[k]].rank : k \in 1..Len(t.snap)} = 1..Len(t.snap)
             /\ Len(sent') = 1
             /\ sent'[1].type = "race_finished"
             /\ sent'[1].race = t.race
             /\ sent'[1].to = {s \in Members(Reg, t.race) : sockState[s] = "open"}
             /\ tasks' = EmptyBag]_vars

\* race_finished has just reached the sole participant of a race, who holds
\* rank 1 and finished at this instant
C13_Witness ==
  /\ tasks = EmptyBag
  /\ Len(sent) = 1
  /\ sent[1].type = "race_finished"
  /\ LET ps == GetRaceParticipants(sent[1].race)
     IN /\ Len(ps) = 1
        /\ pobj[ps[1]].finished
        /\ pobj[ps[1]].finishedAt = now
        /\ pobj[ps[1]].rank = 1
        /\ sent[1].to = {pobj[ps[1]].playerId}
        /\ races[sent[1].race].finishedAt = now

\* the races whose membership set holds socket s
RoomsOf(s) == {r \in DOMAIN socketsByRace : s \in socketsByRace[r]}

\* C14: a connection is in the membership set of at most one race.
C14_AtMostOneRace ==
  \A s \in Sockets : Cardinality(RoomsOf(s)) <= 1

\* C15: once a connection has disconnected and its disconnect handler is
\* over, no participant with its player id remains in any race.
C15_NoParticipantAfterDisconnect ==
  \A s \in Sockets :
    (/\ sockState[s] = "closed"
     /\ \A t \in Suspended : ~(t.kind = "disconnect" /\ t.sock = s))
    => \A i \in 1..Len(pmap) : pobj[pmap[i]].playerId # s

\* the participants in the Map, as records in insertion order
PList == [i \in 1..Len(pmap) |-> pobj[pmap[i]]]

\* the same without the participant of player p in race r
PListWithout(r, p) ==
  SelectSeq(PList, LAMBDA x : ~(x.raceId = r /\ x.playerId = p))

\* the connected members of race r other than socket s
Remaining(r, s) == (Members(Reg, r) \ {s}) \cap Open(sockState)

PlayerLeft(r, s) ==
  <<[type |-> "player_left", text |-> "", race |-> r, to |-> Remaining(r, s),
     bcast |-> TRUE]>>

\* C16: the disconnect of a connection attached to a race does what its
\* leave_race for that race does (the participant of its player id is removed,
\* the connection is no longer a member, player_left goes to the remaining
\* connected members) and leaves no session entry; the disconnect of an
\* unattached connection changes no race, participant or membership set.
C16_DisconnectIsLeave ==
  [][/\ \A s \in Sockets :
          (sockState[s] = "open" /\ sockState'[s] = "closed")
          => IF s \in DOMAIN playerRaces
             THEN /\ PList' = PListWithout(playerRaces[s], playerIds[s])
                  /\ races' = races
                  /\ \E t \in BagToSet(tasks') :
                       t.kind = "disconnect" /\ t.sock = s /\ t.race = playerRaces[s]
             ELSE /\ PList' = PList
                  /\ races' = races
                  /\ socketsByRace' = socketsByRace
                  /\ sent' = <<>>
                  /\ tasks' = EmptyBag
                  /\ s \notin DOMAIN playerRaces' \cup DOMAIN playerIds' \cup DOMAIN playerNames'
     /\ \A t \in At("disconnect", "D_remove") :
          /\ sent' = PlayerLeft(t.race, t.sock)
          /\ Members(Reg, t.race)' = Remaining(t.race, t.sock)
          /\ t.sock \notin DOMAIN playerRaces' \cup DOMAIN playerIds' \cup DOMAIN playerNames'
          /\ PList' = PList /\ races' = races
          /\ tasks' = EmptyBag
     /\ \A s \in Sockets, r \in RaceIds :
          (\E t \in BagToSet(tasks') : t.kind = "leave" /\ t.sock = s /\ t.race = r)
          => (tasks # EmptyBag \/ (PList' = PListWithout(r, s) /\ races' = races))
     /\ \A t \in At("leave", "L_remove") :
          /\ sent' = PlayerLeft(t.race, t.sock)
          /\ Members(Reg, t.race)' = Remaining(t.race, t.sock)
          /\ t.sock \notin DOMAIN playerRaces' \cup DOMAIN playerNames'
          /\ PList' = PList /\ races' = races
          /\ tasks' = EmptyBag]_vars

\* player_left has just gone to socket 2 for the disconnect of socket 1, of
\* which no session entry and no participant remains
C16_Witness ==
  /\ tasks = EmptyBag
  /\ sockState[1] = "closed"
  /\ sent = <<[type |-> "player_left", text |-> "", race |-> 1, to |-> {2},
               bcast |-> TRUE]>>
  /\ 1 \notin DOMAIN playerRaces \cup DOMAIN playerIds \cup DOMAIN playerNames
  /\ 1 \notin Members(Reg, 1)
  /\ \A i \in 1..Len(pmap) : pobj[pmap[i]].playerId # 1

\* the registry after leave_race of socket s for race r is handled
LeaveReg(reg, ss, r, s) ==
  AfterBroadcast([reg EXCEPT !.playerRaces = Del(@, s),
                             !.playerNames = Del(@, s),
                             !.socketsByRace = Detach(@, r, s)], ss, r, {})

\* C17: leave_race sends no error, and handling the same leave_race again
\* right after leaves participants, races and registry as the first left them.
C17_LeaveIdempotent ==
  [][\A t \in At("leave", "L_remove") :
       /\ Reg' = LeaveReg(Reg, sockState, t.race, t.sock)
       /\ \A k \in 1..Len(sent') : sent'[k].type # "error"
       /\ PListWithout(t.race, t.sock)' = PList'
       /\ races' = races
       /\ LeaveReg(Reg, sockState, t.race, t.sock)' = Reg']_vars

\* C18: between events the registry holds no empty membership set.
C18_NoEmptyMembershipSet ==
  tasks = EmptyBag => \A r \in DOMAIN socketsByRace : socketsByRace[r] # {}

\* the steps of a join before its messages are sent
BeforeAnnounce == {"J_getRace", "J_getParticipants", "J_addParticipant"}

\* C19: a successful join sends, in this order, race_update to the joiner (its
\* snapshot holding the joiner's participant), player_joined to every other
\* connected member, race_update to every connected member, joiner included;
\* nothing is sent and no start timer is set before, and the start condition
\* is evaluated after.
C19_JoinMessageOrder ==
  [][/\ \A t \in At("join", "J_getUpdated") :
          LET others == (Members(Reg, t.race) \ {t.sock}) \cap Open(sockState)
          IN /\ \E k \in 1..Len(t.snap) :
                  /\ pobj[t.snap[k]].raceId = t.race
                  /\ pobj[t.snap[k]].playerId = t.sock
                  /\ t.snap[k] = t.obj
             /\ t.snap = GetRaceParticipants(t.race)
             /\ Len(sent') = 3
             /\ sent'[1] = [type |-> "race_update", text |-> "", race |-> t.race,
                            to |-> {t.sock}, bcast |-> FALSE]
             /\ sent'[2] = [type |-> "player_joined", text |-> "", race |-> t.race,
                            to |-> others, bcast |-> TRUE]
             /\ sent'[3] = [type |-> "race_update", text |-> "", race |-> t.race,
                            to |-> others \cup {t.sock}, bcast |-> TRUE]
             /\ timers' = timers
             /\ \E u \in BagToSet(tasks') : u.kind = "join" /\ u.pc = "J_crsGetRace"
     /\ \A t \in Suspended :
          (t.kind = "join" /\ t.pc \in BeforeAnnounce)
          => /\ timers' = timers
             /\ (tasks' # EmptyBag => sent' = <<>>)
     /\ \A t \in Suspended :
          (t.kind = "join" /\ t.pc \in {"J_crsGetRace", "J_crsGetParticipants"})
          => sent' = <<>>]_vars

\* the three messages of a join into a race that had a member
C19_Witness ==
  \E t \in At("join", "J_crsGetRace") :
    /\ Len(sent) = 3
    /\ sent[1].to = {t.sock}
    /\ sent[2].type = "player_joined"
    /\ sent[2].to = Sockets \ {t.sock}
    /\ sent[3].to = Sockets

\* the participants of player p in race r
Keyed(r, p) == {i \in 1..Len(PList) : PList[i].raceId = r /\ PList[i].playerId = p}

\* C20: the join of a race that is waiting and not full leaves exactly one
\* participant under the key (race, joiner's player id), with progress 0,
\* wpm 0, accuracy 100, errors 0, unfinished, no finish time and no rank; no
\* other participant and no race changes, and no other step of a join changes
\* a participant or a race.
C20_JoinCreatesOneParticipant ==
  [][/\ \A t \in At("join", "J_getParticipants") :
          IF t.n < races[t.race].maxPlayers
          THEN /\ Cardinality(Keyed(t.race, t.sock)') = 1
               /\ \A i \in Keyed(t.race, t.sock)' :
                    PList'[i] = [raceId |-> t.race, playerId |-> t.sock, progress |-> 0,
                                 wpm |-> 0, accuracy |-> 100, errors |-> 0,
                                 finished |-> FALSE, finishedAt |-> Null, rank |-> Null]
               /\ PListWithout(t.race, t.sock)' = PListWithout(t.race, t.sock)
               /\ races' = races
          ELSE PList' = PList /\ races' = races
     /\ \A t \in Suspended :
          (t.kind = "join" /\ t.pc # "J_getParticipants")
          => PList' = PList /\ races' = races]_vars

\* a second participant was just added next to one that is there
C20_Witness ==
  \E t \in At("join", "J_addParticipant") :
    /\ Count(t.race) = 2
    /\ pobj[t.obj].playerId = t.sock
    /\ pobj[t.obj].accuracy = 100
    /\ pobj[t.obj].rank = Null
    /\ pmap[Len(pmap)] = t.obj

\* the generic error notification, delivered to socket s
GenericError(s, r) ==
  [type |-> "error", text |-> "Invalid message format", race |-> r, to |-> {s},
   bcast |-> FALSE]

\* C21: an error message is never a broadcast and is the only message of its
\* step; it reaches exactly the socket whose message is being handled (the
\* socket of the running handler, or the sender of a message that made the
\* handler throw at once); the step ends the handler and closes no socket, so
\* the next event can be taken.
C21_ErrorToOriginatorOnly ==
  [][\A k \in 1..Len(sent') :
       sent'[k].type = "error"
       => /\ ~sent'[k].bcast
          /\ Len(sent') = 1
          /\ IF tasks = EmptyBag
             THEN \E s \in Open(sockState) :
                    MalformedMessage(s, 1) /\ sent'[k].to = {s}
             ELSE \A t \in Suspended : sent'[k].to = {t.sock}
          /\ tasks' = EmptyBag
          /\ sockState' = sockState
          /\ Room(1)']_vars

\* the catch has just answered socket 2 alone, on a rejected Store call of its
\* join of a race of which socket 1 is a connected member
C21_Witness ==
  /\ tasks = EmptyBag
  /\ sent = <<GenericError(2, 1)>>
  /\ 1 \in Members(Reg, 1) \cap Open(sockState)
  /\ 2 \in Open(sockState)

\* C22: whenever the Promise awaited by a join_race, leave_race or
\* typing_update handler rejects, the sender receives the generic error.
C22_EveryFailureAnswered ==
  [][\A t \in Suspended :
       (t.kind \in {"join", "leave", "typing"} /\ Rejected(t))
       => sent' = <<GenericError(t.sock, t.race)>>]_vars

\* C23: a message whose type matches no case of the switch is answered with
\* the generic error, like a message that makes the handler throw.
C23_UnknownTypeAnswered ==
  [][\A s \in Sockets :
       (UnknownMessage(s, 1) \/ MalformedMessage(s, 1))
       => sent' = <<GenericError(s, 0)>>]_vars

\* C24: a race becomes finished only in the finish check of a typing_update
\* accepted for it; a step of the clock, of a start timer, of a join, a leave
\* or a disconnect leaves an active race as it is, past its time limit too.
C24_LazyTimeLimit ==
  [][/\ \A r \in Created :
          (races[r].status # "finished" /\ races'[r].status = "finished")
          => \E t \in At("typing", "F_getParticipants") :
               t.race = r /\ races[r].status = "active"
     /\ (tasks = EmptyBag \/ \E t \in Suspended : t.kind # "typing")
        => \A r \in Created :
             races[r].status = "active" => races'[r] = races[r]]_vars

\* a leave_race was just handled for an active race past its time limit
C24_Witness ==
  /\ tasks = EmptyBag
  /\ Len(sent) = 1
  /\ sent[1].type = "player_left"
  /\ HasRace(sent[1].race)
  /\ races[sent[1].race].status = "active"
  /\ Expired(sent[1].race)

\* the awaits of an accepted typing_update before its race_update is sent
BeforeUpdate == {"T_update", "T_finish", "T_getUpdatedRace"}

\* C25: when a typing_update handler broadcasts its race_update, no
\* typing_update of the same race that arrived earlier and was accepted is still
\* waiting to broadcast its own: the race_updates go out in the order of the
\* events, also when the handlers interleave at Store calls.
C25_UpdatesInEventOrder ==
  [][\A b \in At("typing", "T_getUpdatedRace") :
       TypingBroadcast(b)
       => \A a \in Suspended :
            (a.kind = "typing" /\ a.race = b.race /\ a.pc \in BeforeUpdate)
            => a.at >= b.at]_vars

\* the objects of race r now in the Map, in insertion order
Current(r) == SelectSeq(pmap, LAMBDA i : pobj[i].raceId = r)

\* the awaits after which a handler or the timer callback sends race_update
\* with the array it holds
BeforeSnapshot == {"J_getUpdated", "S_getUpdated", "T_getUpdatedRace"}

\* C26: with one event handled at a time, every race_update is sent with the
\* participant array that is in the Store at that moment (the same objects, in
\* the same order, none missing and none removed), for a race that exists, and
\* the step that sends it changes no participant and no race; race_update is
\* sent by no other step.
C26_SnapshotIsCurrent ==
  [][/\ \A t \in Suspended :
          t.pc \in BeforeSnapshot
          => /\ t.snap = Current(t.race)
             /\ HasRace(t.race)
             /\ \E k \in 1..Len(sent') :
                  sent'[k].type = "race_update" /\ sent'[k].race = t.race
             /\ PList' = PList
             /\ races' = races
     /\ \A k \in 1..Len(sent') :
          sent'[k].type = "race_update"
          => \E t \in Suspended : t.pc \in BeforeSnapshot /\ t.race = sent'[k].race]_vars

\* a typing_update holds the array it is about to send: two participants,
\* the sender's finished at this instant, the other's with progress reported
C26_Witness ==
  \E t \in At("typing", "T_getUpdatedRace") :
    /\ Len(t.snap) = 2
    /\ \E i, j \in 1..2 :
         /\ pobj[t.snap[i]].playerId = t.sock
         /\ pobj[t.snap[i]].finished
         /\ pobj[t.snap[i]].finishedAt = now
         /\ pobj[t.snap[j]].playerId # t.sock
         /\ pobj[t.snap[j]].progress = 1

\* the number of start timers pending for race r
Pending(r) ==
  LET S == {tm \in BagToSet(timers) : tm.race = r}
      RECURSIVE Sum(_)
      Sum(T) == IF T = {} THEN 0
                ELSE LET tm == CHOOSE x \in T : TRUE
                     IN CopiesIn(tm, timers) + Sum(T \ {tm})
  IN Sum(S)

\* C27: at most one start timer is pending per race.
C27_OneTimerPerRace ==
  \A r \in Created : Pending(r) <= 1

\* C28: a start timer that fires when its race is no longer waiting, or has
\* fewer than two participants, changes no race, no participant and no
\* membership, sends nothing and sets no timer; its callback ends after the
\* re-check. Firing itself only takes the timer off the pending ones.
C28_FailedRecheckIsNoop ==
  [][/\ (tasks = EmptyBag /\ \E t \in BagToSet(tasks') : t.kind = "timer")
        => /\ races' = races /\ PList' = PList /\ Reg' = Reg
           /\ sent' = <<>>
           /\ BagCardinality(timers') = BagCardinality(timers) - 1
     /\ \A t \in At("timer", "S_getRace") :
          /\ races' = races /\ PList' = PList /\ Reg' = Reg
          /\ sent' = <<>>
          /\ timers' = timers
     /\ \A t \in At("timer", "S_getParticipants") :
          (IF HasRace(t.race) THEN races[t.race].status # "waiting" \/ Count(t.race) < 2
           ELSE TRUE)
          => /\ races' = races /\ PList' = PList /\ Reg' = Reg
             /\ sent' = <<>>
             /\ timers' = timers
             /\ tasks' = EmptyBag]_vars

\* the callback is at its re-check and every participant has left the race
C28_Witness ==
  \E t \in At("timer", "S_getParticipants") :
    /\ races[t.race].status = "waiting"
    /\ Count(t.race) = 0
    /\ t.snap = <<>>

\* a broadcast of the given type for race r to the sockets `to`
Broadcast(type, r, to) ==
  [type |-> type, text |-> "", race |-> r, to |-> to, bcast |-> TRUE]

\* C29: the step after a race is started broadcasts race_started and then
\* race_update, both to every connected member, the race being active with
\* startedAt set; a race_update for an active race is sent either there, after
\* race_started, or by a typing_update handled after the start callback is
\* over; and an active race gets no new member.
C29_StartedThenUpdate ==
  [][/\ \A t \in At("timer", "S_getUpdated") :
          LET to == Members(Reg, t.race) \cap Open(sockState)
          IN /\ races[t.race].status = "active"
             /\ races[t.race].startedAt # Null
             /\ sent' = <<Broadcast("race_started", t.race, to),
                          Broadcast("race_update", t.race, to)>>
             /\ races' = races
     /\ \A k \in 1..Len(sent') :
          (/\ sent'[k].type = "race_update"
           /\ HasRace(sent'[k].race)
           /\ races'[sent'[k].race].status = "active")
          => \/ /\ k > 1
                /\ sent'[k - 1].type = "race_started"
                /\ sent'[k - 1].race = sent'[k].race
                /\ sent'[k].to \subseteq sent'[k - 1].to
             \/ /\ At("timer", "S_getUpdated") = {}
                /\ \E t \in At("typing", "T_getUpdatedRace") : t.race = sent'[k].race
     /\ \A r \in Created :
          races[r].status = "active"
          => (Members(Reg, r) \cap Open(sockState))' \subseteq Members(Reg, r) \cap Open(sockState)]_vars

\* race_started and then race_update have just reached both members of the
\* race, which is active since this instant
C29_Witness ==
  /\ tasks = EmptyBag
  /\ sent = <<Broadcast("race_started", 1, Sockets), Broadcast("race_update", 1, Sockets)>>
  /\ races[1].status = "active"
  /\ races[1].startedAt = now

\* the steps of an accepted typing_update up to its race_update
UpToUpdate == {"T_getRace", "T_update", "T_finish", "T_getUpdatedRace"}

\* C30: a typing_update for an active race sets progress, wpm, accuracy and
\* errors of the sender's participant to the reported values, whatever they
\* were, and nothing else; up to its race_update the handler changes no other
\* participant and no race and sends nothing; the race_update goes to every
\* connected member, and the finish check starts after it.
C30_UpdateThenBroadcast ==
  [][/\ \A t \in At("typing", "T_getRace") :
          (IF HasRace(t.race) THEN races[t.race].status = "active" ELSE FALSE)
          => /\ Len(PList') = Len(PList)
             /\ \A i \in 1..Len(PList) :
                  PList'[i] = IF PList[i].raceId = t.race /\ PList[i].playerId = t.sock
                              THEN [PList[i] EXCEPT !.progress = t.upd.progress,
                                                    !.wpm = t.upd.wpm,
                                                    !.accuracy = t.upd.accuracy,
                                                    !.errors = t.upd.errors]
                              ELSE PList[i]
             /\ \E u \in BagToSet(tasks') : u.kind = "typing" /\ u.pc = "T_update"
     /\ \A t \in Suspended :
          (/\ t.kind = "typing" /\ t.pc \in UpToUpdate
           /\ IF HasRace(t.race) THEN races[t.race].status = "active" ELSE FALSE)
          => /\ PListWithout(t.race, t.sock)' = PListWithout(t.race, t.sock)
             /\ races' = races
             /\ IF t.pc = "T_getUpdatedRace"
                THEN /\ sent' = <<Broadcast("race_update", t.race,
                                            Members(Reg, t.race) \cap Open(sockState))>>
                     /\ PList' = PList
                     /\ \E u \in BagToSet(tasks') : u.kind = "typing" /\ u.pc = "F_getRace"
                ELSE sent' = <<>> /\ tasks' # EmptyBag]_vars

\* an update was just applied that took a finished participant's progress
\* back to 1
C30_Witness ==
  \E t \in At("typing", "T_update") :
    \E i \in Keyed(t.race, t.sock) :
      /\ PList[i].finished
      /\ t.upd.progress = 1
      /\ PList[i].progress = 1
      /\ PList[i].wpm = t.upd.wpm
      /\ races[t.race].status = "active"

\* the socket a broadcast of the given type excludes in the step now taken
\* (player_joined is not sent to the joiner)
Excluded(type) ==
  IF type = "player_joined" THEN {t.sock : t \in At("join", "J_getUpdated")} ELSE {}

\* the sockets the leave_race now handled takes out of race r before it
\* broadcasts
Leavers(r) == {t.sock : t \in {u \in At("leave", "L_remove") : u.race = r}}

Stale(r) == Members(Reg, r) \ Open(sockState)

\* C32: after a step that broadcasts to a race, every socket left in the
\* race's membership set is connected; a socket of the set that was not
\* connected has no session entry left; and a connected member is still a
\* member, unless the step handled its own leave_race.
C32_BroadcastDropsStale ==
  [][\A k \in 1..Len(sent'), r \in RaceIds :
       (sent'[k].bcast /\ sent'[k].race = r)
       => /\ Members(Reg, r)' \subseteq Open(sockState)
          /\ \A s \in Stale(r) :
               s \notin DOMAIN playerRaces' \cup DOMAIN playerIds' \cup DOMAIN playerNames'
          /\ (Members(Reg, r) \cap Open(sockState)) \ Leavers(r)
               \subseteq Members(Reg, r)']_vars

\* a join is about to broadcast to a race whose set holds, next to the
\* joiner, a socket that disconnected without being taken out
C32_Witness ==
  \E t \in At("join", "J_getUpdated") :
    /\ Stale(t.race) # {}
    /\ t.sock \in Members(Reg, t.race) \cap Open(sockState)

\* the awaits of checkRaceFinish after setRaceFinishTime has resolved and
\* before race_finished is broadcast
AfterFinish == {"F_ranksInner", "F_ranks", "F_getResults"}

\* C33: an event that has finished its race in the Store does not end
\* without broadcasting race_finished, also when a later Store call of it
\* fails.
C33_FinishedIsAnnounced ==
  [][\A t \in Suspended :
       (t.kind = "typing" /\ t.pc \in AfterFinish /\ tasks' = EmptyBag)
       => \E k \in 1..Len(sent') :
            sent'[k].type = "race_finished" /\ sent'[k].race = t.race]_vars

\* the ranks held by the participants of race r
RanksHeld(r) ==
  {PList[i].rank : i \in {j \in 1..Len(PList) : PList[j].raceId = r /\ PList[j].rank # Null}}

\* C34: the ranks held by the participants of a race are 1..k for some k, each
\* held once, in ascending order of finish time.
C34_RanksDense ==
  \A r \in Created :
    LET ranked == {i \in 1..Len(PList) : PList[i].raceId = r /\ PList[i].rank # Null}
    IN /\ RanksHeld(r) = 1..Cardinality(ranked)
       /\ \A i, j \in ranked :
            PList[i].finishedAt < PList[j].finishedAt => PList[i].rank < PList[j].rank

\* the player ids that have a participant in race r
Players(r) == {PList[i].playerId : i \in {j \in 1..Len(PList) : PList[j].raceId = r}}

\* C35: between events, the players that have a participant in a race are
\* the players of the sockets in the race's membership set.
C35_ParticipantsAreMembers ==
  tasks = EmptyBag => \A r \in RaceIds : Players(r) = Members(Reg, r)

\* C36: a participant that is finished stays finished and keeps its finish
\* time for as long as it is in the race.
C36_FinishTimeIsFinal ==
  [][\A i \in 1..Len(PList) :
       PList[i].finished
       => \A j \in 1..Len(PList') :
            (PList'[j].raceId = PList[i].raceId /\ PList'[j].playerId = PList[i].playerId)
            => PList'[j].finished /\ PList'[j].finishedAt = PList[i].finishedAt]_vars

\* the number of suspended tasks of race r at one of the awaits pcs
InFlight(pcs, r) ==
  LET S == {t \in Suspended : t.race = r /\ t.pc \in pcs}
      RECURSIVE Sum(_)
      Sum(T) == IF T = {} THEN 0
                ELSE LET t == CHOOSE x \in T : TRUE
                     IN CopiesIn(t, tasks) + Sum(T \ {t})
  IN Sum(S)

\* the awaits of the timer callback between setRaceStartTime and race_started
Announcing == {"S_getUpdated"}

\* the awaits of checkRaceFinish between setRaceFinishTime and race_finished
Concluding == {"F_setFinish", "F_ranksInner", "F_ranks", "F_getResults"}

Outsiders == {t \in Suspended : /\ t.kind = "typing"
                                /\ t.race \in Created
                                /\ races[t.race].status = "active"
                                /\ t.sock \notin Players(t.race)}

\* C38: a typing_update from a connection that has no participant in the
\* named active race changes no participant, does not finish the race and
\* broadcasts nothing to the race.
C38_OutsiderUpdateIsNoop ==
  [][\A t \in Outsiders :
       /\ PList' = PList
       /\ races'[t.race] = races[t.race]
       /\ \A k \in 1..Len(sent') : ~(sent'[k].bcast /\ sent'[k].race = t.race)]_vars


\* the race is active, has a participant and all its participants are finished
AllDone(r) ==
  /\ races[r].status = "active"
  /\ Players(r) # {}
  /\ \A i \in 1..Len(PList) : PList[i].raceId = r => PList[i].finished

\* C39: between events no race is active while it has at least one participant
\* and all of its participants are finished, also after the last unfinished
\* participant left or disconnected.
C39_NoActiveRaceAllFinished == tasks = EmptyBag => \A r \in Created : ~AllDone(r)


\* C40: addParticipant is called only for a waiting race, and the participant
\* set of a race grows only while the race is waiting, also when join_race
\* handlers and the start timer callback interleave at Store calls.
C40_AddOnlyWhileWaiting ==
  [][\A r \in Created :
       races[r].status # "waiting"
       => /\ InFlight({"J_addParticipant"}, r)' <= InFlight({"J_addParticipant"}, r)
          /\ Players(r)' \subseteq Players(r)]_vars

====
